---- MODULE Spec2Model ----
(***************************************************************************)
(* WebSocket TicTacToe (muni-corn/tictactoe-node): the server of           *)
(* src/server.js together with the clients of src/client.js.               *)
(*                                                                         *)
(* The server is one Node process: every event handler runs to completion  *)
(* before the next one starts, so one action is one handler run.  A        *)
(* handler that calls socket.disconnect() runs that socket's 'disconnect'  *)
(* listeners before disconnect() returns; the operators below follow that  *)
(* call chain.  An exception that escapes a handler (a method call on      *)
(* null, a call of an undefined acknowledgement) ends the process.         *)
(*                                                                         *)
(* The clients are the client of src/client.js lines 1-111: it prompts in  *)
(* a loop, guards its input with isTurn, and sends every move with the     *)
(* acknowledgement that the server's turn_taken handler calls as next.     *)
(***************************************************************************)
EXTENDS Integers, Sequences, FiniteSets, TLC

\* Bound of the model: the connections the server accepts over the run.
MaxSockets == 4

Sockets == 1..MaxSockets

\* let firstPlayerSocket = null (a slot that holds no socket)
null == 0

\* board.length
BoardLength == 9
Cells == 0..(BoardLength - 1)

\* ['.', '.', '.', '.', '.', '.', '.', '.', '.']
EmptyBoard == [i \in Cells |-> "."]

\* The payload of emit('turn', null); the client prints
\* retryReason || 'your turn.', so null reads as no reason.
noReason == ""

(***************************************************************************)
(* JavaScript numbers, as far as the server computes with them.            *)
(***************************************************************************)
Num(n) == [k |-> "num", v |-> n]
NaN == [k |-> "nan", v |-> 0]
undefined == [k |-> "undefined", v |-> 0]

\* a + b and a - b: anything but two numbers gives NaN.
JsAdd(a, b) == IF a.k = "num" /\ b.k = "num" THEN Num(a.v + b.v) ELSE NaN
JsSub(a, b) == IF a.k = "num" /\ b.k = "num" THEN Num(a.v - b.v) ELSE NaN
isNaN(a) == a.k # "num"

\* What a player types: a word, as a sequence of characters.
DigitChars == <<"0", "1", "2", "3", "4", "5", "6", "7", "8", "9">>
DigitVals == [c \in {DigitChars[i] : i \in 1..10} |->
                  (CHOOSE i \in 1..10 : DigitChars[i] = c) - 1]
IsDigit(c) == c \in DOMAIN DigitVals
DigitVal(c) == DigitVals[c]
AllDigits(cs) == \A i \in 1..Len(cs) : IsDigit(cs[i])

RECURSIVE DecimalValue(_)
DecimalValue(cs) ==
    IF cs = <<>> THEN 0
    ELSE 10 * DecimalValue(SubSeq(cs, 1, Len(cs) - 1)) + DigitVal(cs[Len(cs)])

\* Number(position) for the words of Inputs: decimal digits with an
\* optional sign are a number, every other word is NaN.
Number(cs) ==
    IF cs # <<>> /\ AllDigits(cs) THEN Num(DecimalValue(cs))
    ELSE IF Len(cs) > 1 /\ cs[1] = "-" /\ AllDigits(Tail(cs))
         THEN Num(0 - DecimalValue(Tail(cs)))
    ELSE IF Len(cs) > 1 /\ cs[1] = "+" /\ AllDigits(Tail(cs))
         THEN Num(DecimalValue(Tail(cs)))
    ELSE NaN

\* The words a player enters as a move: 1-9, 0, 10, -3 and the
\* unparseable a.
Inputs ==
    {<<DigitChars[i]>> : i \in 1..10} \cup {<<"1", "0">>, <<"-", "3">>, <<"a">>}

\* The word that resigns.
ResignWord == <<"r">>

VARIABLES
    firstPlayerSocket,   \* server.js:18, a socket or null
    secondPlayerSocket,  \* server.js:19
    board,               \* server.js:22
    connected,           \* socket.connected of every socket, as the server sees it
    listeners,           \* per socket, the symbols setupSocket was called with, in order
    crashed,             \* an exception escaped a handler: the server process is gone
    nextSocket,          \* the socket the next connection creates
    started,             \* client: game_start was received, the client prompts
    isTurn,              \* client.js:63
    announced            \* the game_start, game_over and reject events the last
                         \* step emitted, in order

vars == <<firstPlayerSocket, secondPlayerSocket, board, connected, listeners,
          crashed, nextSocket, started, isTurn, announced>>

(***************************************************************************)
(* The server's state as a value the handlers transform.                   *)
(***************************************************************************)
Server ==
    [firstPlayerSocket |-> firstPlayerSocket,
     secondPlayerSocket |-> secondPlayerSocket,
     board |-> board,
     connected |-> connected,
     listeners |-> listeners,
     crashed |-> FALSE,
     sent |-> <<>>]

Msg(to, ev, data) == [to |-> to, ev |-> ev, data |-> data]

\* socket.emit(event, data): a method call on null throws; an emit on a
\* socket that is no longer connected reaches nobody.
emit(S, socket, event, data) ==
    IF S.crashed THEN S
    ELSE IF socket = null THEN [S EXCEPT !.crashed = TRUE]
    ELSE IF S.connected[socket]
         THEN [S EXCEPT !.sent = Append(@, Msg(socket, event, data))]
    ELSE S

emitToAll(S, event, data) ==
    LET S1 == IF S.firstPlayerSocket # null
              THEN emit(S, S.firstPlayerSocket, event, data) ELSE S
    IN  IF S1.secondPlayerSocket # null
        THEN emit(S1, S1.secondPlayerSocket, event, data) ELSE S1

\* A slip: the player's own ordinal instead of the opponent's.
ownOrdinal(symbol) == IF symbol = "x" THEN "first" ELSE "second"

otherPlayerOrdinal(symbol) == IF symbol = "x" THEN "second" ELSE "first"

WonBy(who) == <<"won by", who, "player">>
WonByDisconnection(winner) ==
    <<"won by", winner, "player since",
      IF winner = "first" THEN "second" ELSE "first", "player disconnected">>
WonByResignation(winner) == <<"won by", winner, "player due to resignation">>
Tied == <<"is tied">>

RECURSIVE cleanUp(_), socketDisconnect(_, _), onDisconnect(_, _, _),
          announceWinnerByDisconnection(_, _)

\* socket.disconnect() on the server, and the close of a socket whose
\* client left: a connected socket becomes disconnected and its
\* 'disconnect' listeners run, one per setupSocket call, before the call
\* returns.
socketDisconnect(S, socket) ==
    IF ~S.connected[socket] THEN S
    ELSE onDisconnect([S EXCEPT !.connected[socket] = FALSE], socket, 1)

onDisconnect(S, socket, i) ==
    IF i > Len(S.listeners[socket]) THEN S
    ELSE onDisconnect(
             announceWinnerByDisconnection(
                 S, otherPlayerOrdinal(S.listeners[socket][i])),
             socket, i + 1)

\* A slip: the second slot is disconnected but not released.
cleanUpKeepsSecond(S) ==
    LET S1 == IF S.firstPlayerSocket # null
              THEN [socketDisconnect(S, S.firstPlayerSocket)
                        EXCEPT !.firstPlayerSocket = null]
              ELSE S
        S2 == IF S1.secondPlayerSocket # null
              THEN socketDisconnect(S1, S1.secondPlayerSocket)
              ELSE S1
    IN  [S2 EXCEPT !.board = EmptyBoard]

cleanUp(S) ==
    LET S1 == IF S.firstPlayerSocket # null
              THEN [socketDisconnect(S, S.firstPlayerSocket)
                        EXCEPT !.firstPlayerSocket = null]
              ELSE S
        S2 == IF S1.secondPlayerSocket # null
              THEN [socketDisconnect(S1, S1.secondPlayerSocket)
                        EXCEPT !.secondPlayerSocket = null]
              ELSE S1
    IN  [S2 EXCEPT !.board = EmptyBoard]

announceWinnerByDisconnection(S, winner) ==
    cleanUp(emitToAll(S, "game_over", WonByDisconnection(winner)))

announceWinner(S, who) == cleanUp(emitToAll(S, "game_over", WonBy(who)))

announceWinnerByResignation(S, winner) ==
    cleanUp(emitToAll(S, "game_over", WonByResignation(winner)))

announceTie(S) == cleanUp(emitToAll(S, "game_over", Tied))

\* The result of a function that changes the state and returns a boolean.
Ret(S, r) == [st |-> S, ret |-> r]

\* A slip: the sum -3 of the second player's line is not looked at.
determineWinnerFromSumFirstOnly(S, sum) ==
    IF sum = Num(3) THEN Ret(announceWinner(S, "first"), TRUE)
    ELSE Ret(S, FALSE)

determineWinnerFromSum(S, sum) ==
    IF sum = Num(3) THEN Ret(announceWinner(S, "first"), TRUE)
    ELSE IF sum = Num(0 - 3) THEN Ret(announceWinner(S, "second"), TRUE)
    ELSE Ret(S, FALSE)

\* No return for '.': the score of an empty cell is undefined.
symbolToScore(symbol) ==
    IF symbol = "x" THEN Num(1)
    ELSE IF symbol = "o" THEN Num(0 - 1)
    ELSE undefined

\* The eight lines in the order checkForGameOver sums them: rows, columns,
\* then the two diagonals.
Lines ==
    <<<<0, 1, 2>>, <<3, 4, 5>>, <<6, 7, 8>>,
      <<0, 3, 6>>, <<1, 4, 7>>, <<2, 5, 8>>,
      <<0, 4, 8>>, <<2, 4, 6>>>>

\* let sum = 0; sum += symbolToScore(...) three times (the diagonals add
\* the three scores directly, which gives the same value).
LineSum(b, line) ==
    JsAdd(JsAdd(JsAdd(Num(0), symbolToScore(b[line[1]])),
                symbolToScore(b[line[2]])),
          symbolToScore(b[line[3]]))

RECURSIVE checkLines(_, _)

\* A slip: the full board is looked at before the lines.
checkLinesTieFirst(S, i) ==
    IF \A c \in Cells : S.board[c] # "."
    THEN Ret(announceTie(S), TRUE)
    ELSE IF i > Len(Lines) THEN Ret(S, FALSE)
    ELSE LET r == determineWinnerFromSum(S, LineSum(S.board, Lines[i]))
         IN  IF r.ret THEN r ELSE checkLines(r.st, i + 1)

checkLines(S, i) ==
    IF i > Len(Lines)
    THEN IF \E c \in Cells : S.board[c] = "."
         THEN Ret(S, FALSE)
         ELSE Ret(announceTie(S), TRUE)
    ELSE LET r == determineWinnerFromSum(S, LineSum(S.board, Lines[i]))
         IN  IF r.ret THEN r ELSE checkLines(r.st, i + 1)

checkForGameOver(S) == checkLines(S, 1)

\* The three rejections of the turn_taken handler.
CouldntParse == "couldn't parse position. enter a number from 1-9."
OutOfBounds == "that position is out of bounds. enter a number from 1-9."
Occupied == "that position is occupied. try again."

\* A slip: the rejections go to both players.
turnTakenBodyRejectsToAll(S, socket, symbol, word) ==
    LET position == JsSub(Number(word), Num(1))
    IN  IF isNaN(position) THEN emitToAll(S, "turn", CouldntParse)
        ELSE IF position.v < 0 \/ position.v >= BoardLength
             THEN emitToAll(S, "turn", OutOfBounds)
        ELSE IF S.board[position.v] # "."
             THEN emitToAll(S, "turn", Occupied)
        ELSE LET S1 == [S EXCEPT !.board[position.v] = symbol]
                 S2 == emitToAll(S1, "board_update", S1.board)
                 r == checkForGameOver(S2)
             IN  IF r.ret THEN r.st
                 ELSE IF symbol = "x"
                      THEN emit(r.st, r.st.secondPlayerSocket, "turn", noReason)
                      ELSE emit(r.st, r.st.firstPlayerSocket, "turn", noReason)

\* A slip: the cell is not checked for a mark before it is written.
turnTakenBodyOverwrites(S, socket, symbol, word) ==
    LET position == JsSub(Number(word), Num(1))
    IN  IF isNaN(position) THEN emit(S, socket, "turn", CouldntParse)
        ELSE IF position.v < 0 \/ position.v >= BoardLength
             THEN emit(S, socket, "turn", OutOfBounds)
        ELSE LET S1 == [S EXCEPT !.board[position.v] = symbol]
                 S2 == emitToAll(S1, "board_update", S1.board)
                 r == checkForGameOver(S2)
             IN  IF r.ret THEN r.st
                 ELSE IF symbol = "x"
                      THEN emit(r.st, r.st.secondPlayerSocket, "turn", noReason)
                      ELSE emit(r.st, r.st.firstPlayerSocket, "turn", noReason)

\* A slip: the game-over check runs before the board is broadcast.
turnTakenBodyAnnouncesFirst(S, socket, symbol, word) ==
    LET position == JsSub(Number(word), Num(1))
    IN  IF isNaN(position) THEN emit(S, socket, "turn", CouldntParse)
        ELSE IF position.v < 0 \/ position.v >= BoardLength
             THEN emit(S, socket, "turn", OutOfBounds)
        ELSE IF S.board[position.v] # "."
             THEN emit(S, socket, "turn", Occupied)
        ELSE LET S1 == [S EXCEPT !.board[position.v] = symbol]
                 r == checkForGameOver(S1)
                 S2 == emitToAll(r.st, "board_update", S1.board)
             IN  IF r.ret THEN S2
                 ELSE IF symbol = "x"
                      THEN emit(S2, S2.secondPlayerSocket, "turn", noReason)
                      ELSE emit(S2, S2.firstPlayerSocket, "turn", noReason)

\* The body of one turn_taken listener, up to the call of next.
turnTakenBody(S, socket, symbol, word) ==
    LET position == JsSub(Number(word), Num(1))
    IN  IF isNaN(position) THEN emit(S, socket, "turn", CouldntParse)
        ELSE IF position.v < 0 \/ position.v >= BoardLength
             THEN emit(S, socket, "turn", OutOfBounds)
        ELSE IF S.board[position.v] # "."
             THEN emit(S, socket, "turn", Occupied)
        ELSE LET S1 == [S EXCEPT !.board[position.v] = symbol]
                 S2 == emitToAll(S1, "board_update", S1.board)
                 r == checkForGameOver(S2)
             IN  IF r.ret THEN r.st
                 ELSE IF symbol = "x"
                      THEN emit(r.st, r.st.secondPlayerSocket, "turn", noReason)
                      ELSE emit(r.st, r.st.firstPlayerSocket, "turn", noReason)

\* One turn_taken listener: the body, then next().  next is the
\* acknowledgement the client passed; with none passed it is undefined and
\* the call throws.
turnTakenListener(S, socket, symbol, word, hasNext) ==
    LET S1 == turnTakenBody(S, socket, symbol, word)
    IN  IF S1.crashed \/ hasNext THEN S1 ELSE [S1 EXCEPT !.crashed = TRUE]

\* An event from the client of `socket`: its listeners run in the order
\* they were registered; an exception in one ends the dispatch.
RECURSIVE onTurnTaken(_, _, _, _, _)
onTurnTaken(S, socket, word, hasNext, i) ==
    IF S.crashed \/ i > Len(S.listeners[socket]) THEN S
    ELSE onTurnTaken(
             turnTakenListener(S, socket, S.listeners[socket][i], word, hasNext),
             socket, word, hasNext, i + 1)

\* A slip: the resignation is announced but the session is not cleaned up.
onResignAnnouncesOnly(S, socket, i) ==
    emitToAll(S, "game_over",
              WonByResignation(otherPlayerOrdinal(S.listeners[socket][1])))

RECURSIVE onResign(_, _, _)
onResign(S, socket, i) ==
    IF i > Len(S.listeners[socket]) THEN S
    ELSE onResign(
             announceWinnerByResignation(
                 S, otherPlayerOrdinal(S.listeners[socket][i])),
             socket, i + 1)

\* A slip: an input failure is announced as a resignation.
onTurnErrorResigns(S, socket, i) == onResign(S, socket, i)

RECURSIVE onTurnError(_, _, _)
onTurnError(S, socket, i) ==
    IF i > Len(S.listeners[socket]) THEN S
    ELSE onTurnError(
             announceWinnerByDisconnection(
                 S, otherPlayerOrdinal(S.listeners[socket][i])),
             socket, i + 1)

\* setupSocket(socket, symbol) adds one listener per event to the socket.
setupSocket(S, socket, symbol) ==
    [S EXCEPT !.listeners[socket] = Append(@, symbol)]

Reject == "you can't connect now! there are already two players connected."

\* Which branch of the connection handler a new socket takes.
admission(S) ==
    IF S.firstPlayerSocket = null THEN "first"
    ELSE IF S.secondPlayerSocket = null THEN "second"
    ELSE "reject"

\* io.on('connection', socket => ...)
onConnection(S0, socket) ==
    LET S == [S0 EXCEPT !.connected[socket] = TRUE]
        S1 == CASE admission(S) = "first" ->
                       [S EXCEPT !.firstPlayerSocket = socket]
                [] admission(S) = "second" ->
                       [S EXCEPT !.secondPlayerSocket = socket]
                [] OTHER -> emit(S, socket, "reject", Reject)
    IN  IF S1.firstPlayerSocket # null /\ S1.secondPlayerSocket # null
        THEN LET S2 == setupSocket(S1, S1.firstPlayerSocket, "x")
                 S3 == setupSocket(S2, S2.secondPlayerSocket, "o")
                 S4 == emit(S3, S3.firstPlayerSocket, "game_start", "first")
                 S5 == emit(S4, S4.secondPlayerSocket, "game_start", "second")
             IN  emit(S5, S5.firstPlayerSocket, "turn", noReason)
        ELSE S1

(***************************************************************************)
(* The clients.  The channel to a client is first-in-first-out and the     *)
(* client's handlers for game_start and turn only set its flags, so an     *)
(* event counts as received in the step that emits it: a line typed before *)
(* the event arrives is a line typed before it was sent.                   *)
(***************************************************************************)
Count(msgs, socket, event) ==
    Cardinality({i \in 1..Len(msgs) : msgs[i].to = socket /\ msgs[i].ev = event})

\* The client of `socket` receives `event` from what the server emitted.
Receives(msgs, socket, event) ==
    \E i \in 1..Len(msgs) : msgs[i].to = socket /\ msgs[i].ev = event

Announcements == {"game_start", "game_over", "reject"}
IsAnnouncement(m) == m.ev \in Announcements

\* A client whose socket is disconnected exits (client.js:30-33), and so
\* does one that is sent reject (client.js:24-27); when the server process
\* ends, every connection closes.
Alive(S, socket) ==
    ~S.crashed /\ S.connected[socket] /\ ~Receives(S.sent, socket, "reject")

\* The clients' isTurn flags after a handler run that left the server in
\* S, the flags being turnNow before the clients receive what S.sent
\* holds: a 'turn' event sets the flag (client.js:64-67).
turnAfter(S, turnNow) ==
    [s \in Sockets |->
        Alive(S, s) /\ (turnNow[s] \/ Receives(S.sent, s, "turn"))]

\* The state after a handler run that left the server in S.  A socket that
\* is closed takes its listeners and its client with it.
Commit(S, turnNow) ==
    LET alive == [s \in Sockets |-> Alive(S, s)]
    IN  /\ firstPlayerSocket' = S.firstPlayerSocket
        /\ secondPlayerSocket' = S.secondPlayerSocket
        /\ board' = S.board
        /\ crashed' = S.crashed
        /\ announced' = SelectSeq(S.sent, IsAnnouncement)
        /\ connected' = alive
        /\ listeners' = [s \in Sockets |->
                            IF alive[s] THEN S.listeners[s] ELSE <<>>]
        /\ started' = [s \in Sockets |->
                          alive[s]
                          /\ (started[s] \/ Receives(S.sent, s, "game_start"))]
        /\ isTurn' = turnAfter(S, turnNow)

\* A new endpoint connects.
Connect ==
    /\ ~crashed
    /\ nextSocket <= MaxSockets
    /\ nextSocket' = nextSocket + 1
    /\ Commit(onConnection(Server, nextSocket), isTurn)

\* The client of a connected socket goes away (killed, network loss).
Disconnect(s) ==
    /\ ~crashed
    /\ connected[s]
    /\ Commit(socketDisconnect(Server, s), isTurn)
    /\ UNCHANGED nextSocket

\* A slip: the client sends the line as a move whether or not it is its
\* turn.
loopBranchUnguarded(word, turn) ==
    IF word = ResignWord THEN "resign" ELSE "turn"

\* The branch the readcommand.loop callback takes (client.js:82-109).
loopBranch(word, turn) ==
    IF word = ResignWord THEN "resign"
    ELSE IF turn THEN "turn"
    ELSE "wait"

\* The client runs readcommand.loop from game_start on.
Prompting(s) == ~crashed /\ connected[s] /\ started[s]

\* What the server does when the client of s reads `word`: the resign or
\* turn_taken listeners run, or the client only prints that it is not its
\* turn.
loopCommand(S, s, word, turn) ==
    CASE loopBranch(word, turn) = "resign" -> onResign(S, s, 1)
      [] loopBranch(word, turn) = "turn" -> onTurnTaken(S, s, word, TRUE, 1)
      [] OTHER -> S

\* The client clears isTurn when it sent the line as a move
\* (client.js:102).
turnCleared(s, word) ==
    IF loopBranch(word, isTurn[s]) = "turn"
    THEN [isTurn EXCEPT ![s] = FALSE] ELSE isTurn

\* The client of s reads a line without error.  In the branch that only
\* prints, nothing reaches the server and no flag changes.
LoopCommand(s, word) ==
    /\ Prompting(s)
    /\ IF loopBranch(word, isTurn[s]) = "wait"
       THEN /\ announced' = <<>>
            /\ UNCHANGED <<firstPlayerSocket, secondPlayerSocket, board,
                           connected, listeners, crashed, started, isTurn>>
       ELSE Commit(loopCommand(Server, s, word, isTurn[s]), turnCleared(s, word))
    /\ UNCHANGED nextSocket

\* The client fails to read a line while it is its turn.
LoopInputError(s) ==
    /\ Prompting(s)
    /\ isTurn[s]
    /\ Commit(onTurnError(Server, s, 1), [isTurn EXCEPT ![s] = FALSE])
    /\ UNCHANGED nextSocket

Init ==
    /\ firstPlayerSocket = null
    /\ secondPlayerSocket = null
    /\ board = EmptyBoard
    /\ connected = [s \in Sockets |-> FALSE]
    /\ listeners = [s \in Sockets |-> <<>>]
    /\ crashed = FALSE
    /\ nextSocket = 1
    /\ started = [s \in Sockets |-> FALSE]
    /\ isTurn = [s \in Sockets |-> FALSE]
    /\ announced = <<>>

Next ==
    \/ Connect
    \/ \E s \in Sockets : Disconnect(s)
    \/ \E s \in Sockets : \E word \in Inputs \cup {ResignWord} : LoopCommand(s, word)
    \/ \E s \in Sockets : LoopInputError(s)

Spec == Init /\ [][Next]_vars

(***************************************************************************)
(* Vocabulary of the properties, stated without the server's own           *)
(* functions.                                                              *)
(***************************************************************************)
\* A session is in progress: both slots are filled and the server runs.
InProgress ==
    ~crashed /\ firstPlayerSocket # null /\ secondPlayerSocket # null

Seated(s) == s # null /\ (s = firstPlayerSocket \/ s = secondPlayerSocket)
OrdinalOf(s) == IF s = firstPlayerSocket THEN "first" ELSE "second"
MarkOf(s) == IF s = firstPlayerSocket THEN "x" ELSE "o"
OtherOrdinal(ordinal) == IF ordinal = "first" THEN "second" ELSE "first"
OwnerOf(mark) == IF mark = "x" THEN "first" ELSE "second"

\* The seated endpoints that are connected.
Players == {s \in Sockets : Seated(s) /\ connected[s]}

\* The words 1-9 and the cell each names.
MoveWords == {<<DigitChars[i]>> : i \in 2..10}
CellOf(word) == CHOOSE c \in Cells : DigitChars[c + 2] = word[1]

\* The words of Inputs that are no number, or a number outside 1-9.
BadWords == {<<"0">>, <<"1", "0">>, <<"-", "3">>, <<"a">>}

\* The rows, columns and diagonals of the board.
AllLines ==
    {{0, 1, 2}, {3, 4, 5}, {6, 7, 8}, {0, 3, 6}, {1, 4, 7}, {2, 5, 8},
     {0, 4, 8}, {2, 4, 6}}
HasLine(b, mark) == \E line \in AllLines : \A c \in line : b[c] = mark
Full(b) == \A c \in Cells : b[c] # "."

\* The board once s has put its mark on the cell `word` names.
Placed(s, word) == [board EXCEPT ![CellOf(word)] = MarkOf(s)]

\* The game_over outcomes sent to s in the last step, in order.
Outcomes(msgs, s) ==
    LET mine == SelectSeq(msgs, LAMBDA m : m.to = s /\ m.ev = "game_over")
    IN  [i \in 1..Len(mine) |-> mine[i].data]

\* s was sent `outcome` as its game_over: the first one, on which the
\* client prints the outcome and leaves (client.js:54-57).
ToldOutcome(msgs, s, outcome) ==
    Outcomes(msgs, s) # <<>> /\ Outcomes(msgs, s)[1] = outcome

\* The server after the client of s read `word`.
AfterCommand(s, word) == loopCommand(Server, s, word, isTurn[s])

\* The server S has ended the session: both slots are released.
Ended(S) == S.firstPlayerSocket = null /\ S.secondPlayerSocket = null

(***************************************************************************)
(* The properties.  A property of what one handler run does is stated of   *)
(* every reachable state and every input the run can get there.            *)
(***************************************************************************)

C2_ThirdConnectionHasNoEffect ==
    [][(InProgress /\ nextSocket' # nextSocket)
          => /\ board' = board
             /\ firstPlayerSocket' = firstPlayerSocket
             /\ secondPlayerSocket' = secondPlayerSocket
             /\ isTurn' = isTurn
             /\ listeners' = listeners
             /\ \A s \in Sockets :
                    /\ Count(announced', s, "game_start") = 0
                    /\ Count(onConnection(Server, nextSocket).sent, s, "turn") = 0
             /\ Count(announced', nextSocket, "reject") = 1]_vars

\* C3: no endpoint is sent more than one game_over.
C3_GameOverOnce ==
    \A s \in Sockets : Len(Outcomes(announced, s)) <= 1

\* C4: when the move of the player that holds the turn completes a row,
\* column or diagonal of one mark, the session ends and every connected
\* player is told that the owner of that mark won.
C4_LineWins ==
    \A s \in Sockets : \A word \in MoveWords :
        (/\ InProgress /\ Seated(s) /\ Prompting(s) /\ isTurn[s]
         /\ board[CellOf(word)] = ".")
            => LET b == Placed(s, word)
               IN  \A mark \in {"x", "o"} :
                       HasLine(b, mark)
                           => LET S == AfterCommand(s, word)
                              IN  /\ Ended(S)
                                  /\ \A t \in Players :
                                         ToldOutcome(S.sent, t,
                                                     WonBy(OwnerOf(mark)))

\* The second player has just been told that it won by a line.
C4_Witness ==
    /\ firstPlayerSocket = null
    /\ \E t \in Sockets : ToldOutcome(announced, t, WonBy("second"))

\* C5: when the move of the player that holds the turn fills the last
\* empty cell and no line is complete, the session ends, every connected
\* player is told the game is tied, and no game_over that names a winner
\* is sent to anybody.
C5_FullBoardTies ==
    \A s \in Sockets : \A word \in MoveWords :
        (/\ InProgress /\ Seated(s) /\ Prompting(s) /\ isTurn[s]
         /\ board[CellOf(word)] = "."
         /\ Full(Placed(s, word))
         /\ ~HasLine(Placed(s, word), "x") /\ ~HasLine(Placed(s, word), "o"))
            => LET S == AfterCommand(s, word)
               IN  /\ Ended(S)
                   /\ \A t \in Players : ToldOutcome(S.sent, t, Tied)
                   /\ \A t \in Sockets :
                          \A i \in 1..Len(Outcomes(S.sent, t)) :
                              Outcomes(S.sent, t)[i] = Tied

\* C6: a move that is no number, or a number outside 1-9, entered by the
\* player that holds the turn leaves the board and every player's turn as
\* they were; the server answers with turn events that carry a reason,
\* all to that player, and emits nothing else.
C6_BadMoveRejected ==
    \A s \in Sockets : \A word \in BadWords :
        (InProgress /\ Seated(s) /\ Prompting(s) /\ isTurn[s])
            => LET S == AfterCommand(s, word)
               IN  /\ S.board = board
                   /\ turnAfter(S, turnCleared(s, word)) = isTurn
                   /\ S.sent # <<>>
                   /\ \A i \in 1..Len(S.sent) :
                          /\ S.sent[i].to = s
                          /\ S.sent[i].ev = "turn"
                          /\ S.sent[i].data \in {CouldntParse, OutOfBounds}

\* A session with three marks on the board in which a player holds the
\* turn, as it does after a rejected move.
C6_Witness ==
    /\ InProgress
    /\ announced = <<>>
    /\ Cardinality({c \in Cells : board[c] # "."}) = 3
    /\ \E s \in Players : Prompting(s) /\ isTurn[s]

\* C7: a move onto a cell that holds a mark changes no cell, and a cell
\* that holds a mark keeps it in every step that does not end the
\* session.
C7_CellsOnlyFill ==
    /\ [](\A s \in Sockets : \A word \in MoveWords :
            (/\ InProgress /\ Seated(s) /\ Prompting(s) /\ isTurn[s]
             /\ board[CellOf(word)] # ".")
                => AfterCommand(s, word).board = board)
    /\ [][\/ \A c \in Cells : board[c] = "." \/ board'[c] = board[c]
          \/ /\ firstPlayerSocket # null
             /\ firstPlayerSocket' = null
             /\ secondPlayerSocket' = null]_vars

\* A session whose board holds marks of both players.
C7_Witness ==
    /\ InProgress
    /\ announced = <<>>
    /\ \E c \in Cells : board[c] = "x"
    /\ \E c \in Cells : board[c] = "o"
    /\ \E s \in Players : Prompting(s) /\ isTurn[s]

\* C8: while a session between two connected players is in progress,
\* exactly one of them holds the turn.
C8_ExactlyOneHolder ==
    (InProgress /\ connected[firstPlayerSocket] /\ connected[secondPlayerSocket])
        => isTurn[firstPlayerSocket] # isTurn[secondPlayerSocket]

\* C9: when a seated player resigns, with or without the turn, the session
\* ends and every connected player is told that the other player won by
\* resignation.
C9_ResignationGivesOtherTheWin ==
    \A s \in Sockets :
        (InProgress /\ Seated(s) /\ Prompting(s))
            => LET S == AfterCommand(s, ResignWord)
               IN  /\ Ended(S)
                   /\ \A t \in Players :
                          ToldOutcome(S.sent, t,
                              WonByResignation(OtherOrdinal(OrdinalOf(s))))

\* A player has just been told that the first player won by resignation:
\* the second player resigned.
C9_Witness ==
    /\ firstPlayerSocket = null
    /\ \E t \in Sockets : ToldOutcome(announced, t, WonByResignation("first"))

\* C10: when the endpoint of a seated player disconnects during a session,
\* the session ends, the player that is still connected is sent one
\* game_over that names it the winner by disconnection, both slots are
\* released and the board is empty; the next endpoint to connect gets the
\* first slot, and the one after it the second slot and a game_start on
\* an empty board.
C10_DisconnectionEndsAndResets ==
    /\ \A s \in Sockets :
           (InProgress /\ Seated(s) /\ connected[s])
               => LET S == socketDisconnect(Server, s)
                  IN  /\ Ended(S)
                      /\ S.board = EmptyBoard
                      /\ \A t \in Players \ {s} :
                             Outcomes(S.sent, t)
                                 = <<WonByDisconnection(OrdinalOf(t))>>
    /\ (~crashed /\ nextSocket <= MaxSockets /\ secondPlayerSocket = null)
           => LET S == onConnection(Server, nextSocket)
              IN  IF firstPlayerSocket = null
                  THEN /\ S.firstPlayerSocket = nextSocket
                       /\ S.secondPlayerSocket = null
                  ELSE /\ S.firstPlayerSocket = firstPlayerSocket
                       /\ S.secondPlayerSocket = nextSocket
                       /\ S.board = EmptyBoard
                       /\ \E i \in 1..Len(S.sent) :
                              S.sent[i] = Msg(nextSocket, "game_start", "second")

\* The first player has just been told that it won because the second
\* player disconnected, and the slots are free.
C10_Witness ==
    /\ firstPlayerSocket = null
    /\ secondPlayerSocket = null
    /\ \E t \in Sockets :
           Outcomes(announced, t) = <<WonByDisconnection("first")>>

\* The socket a slot holds is connected.
SlotConnected(slot) == slot = null \/ connected[slot]

\* C11: while the server runs, every filled slot holds a socket that is
\* connected, also while only the first slot is filled.
C11_SeatedIsConnected ==
    ~crashed => SlotConnected(firstPlayerSocket) /\ SlotConnected(secondPlayerSocket)

\* The server S is back to Empty after a session between the players of
\* the current state: slots released, board empty, the players' sockets
\* closed.
BackToEmpty(S) ==
    /\ Ended(S)
    /\ S.board = EmptyBoard
    /\ \A t \in Players : ~S.connected[t]

\* The move `word` of s ends the game: it completes a line or fills the
\* board.
EndsGame(s, word) ==
    /\ board[CellOf(word)] = "."
    /\ \/ HasLine(Placed(s, word), "x")
       \/ HasLine(Placed(s, word), "o")
       \/ Full(Placed(s, word))

\* C12: after every terminal outcome (a move that wins or ties, a
\* resignation, a disconnection, a turn_error) both slots are released,
\* both endpoints are disconnected and the board is empty when the handler
\* returns.
C12_TerminalOutcomeResets ==
    \A s \in Sockets :
        (InProgress /\ Seated(s) /\ connected[s])
            => /\ BackToEmpty(socketDisconnect(Server, s))
               /\ Prompting(s) => BackToEmpty(AfterCommand(s, ResignWord))
               /\ (Prompting(s) /\ isTurn[s])
                      => /\ BackToEmpty(onTurnError(Server, s, 1))
                         /\ \A word \in MoveWords :
                                EndsGame(s, word)
                                    => BackToEmpty(AfterCommand(s, word))

\* C13: a session starts exactly when the second slot fills: the
\* connection that fills it finds the board empty, sends game_start first
\* to the first slot's endpoint and game_start second to the newcomer, and
\* turn to the first slot's endpoint only; a connection at any other time
\* sends no game_start, so each endpoint is sent game_start once.
C13_SessionStartsOnce ==
    (~crashed /\ nextSocket <= MaxSockets)
        => LET S == onConnection(Server, nextSocket)
               starts == SelectSeq(S.sent, LAMBDA m : m.ev = "game_start")
               turns == SelectSeq(S.sent, LAMBDA m : m.ev = "turn")
           IN  IF firstPlayerSocket # null /\ secondPlayerSocket = null
               THEN /\ S.board = EmptyBoard
                    /\ starts = <<Msg(firstPlayerSocket, "game_start", "first"),
                                  Msg(nextSocket, "game_start", "second")>>
                    /\ turns = <<Msg(firstPlayerSocket, "turn", noReason)>>
                    /\ S.listeners[firstPlayerSocket] = <<"x">>
                    /\ S.listeners[nextSocket] = <<"o">>
               ELSE starts = <<>> /\ turns = <<>>

\* The step is an accepted move of s that does not end the game: s held
\* the turn and one empty cell got the mark of s.
AcceptedMoveBy(s) ==
    /\ isTurn[s]
    /\ \E c \in Cells :
           /\ board[c] = "."
           /\ board' = [board EXCEPT ![c] = MarkOf(s)]

\* C14: while a session between the same two connected players goes on,
\* the turn flags change only in a step that is an accepted move of a
\* player s, and after it the other player holds the turn and s does not.
C14_TurnMovesOnlyByAcceptedMove ==
    [][(/\ InProgress /\ ~crashed'
        /\ firstPlayerSocket' = firstPlayerSocket
        /\ secondPlayerSocket' = secondPlayerSocket
        /\ connected[firstPlayerSocket] /\ connected'[firstPlayerSocket]
        /\ connected[secondPlayerSocket] /\ connected'[secondPlayerSocket])
          => /\ isTurn' # isTurn
                 => \E s \in Players : AcceptedMoveBy(s)
             /\ \A s \in Players :
                    AcceptedMoveBy(s)
                        => /\ ~isTurn'[s]
                           /\ \A t \in Players \ {s} : isTurn'[t]]_vars

\* C15: a turn_error from the player that holds the turn ends the session
\* as the disconnection of that player does: slots released, sockets
\* closed, board empty, and the other player is told that it won because
\* its opponent disconnected, the same outcome a disconnection tells it.
C15_TurnErrorIsDisconnection ==
    \A s \in Sockets :
        (InProgress /\ Seated(s) /\ Prompting(s) /\ isTurn[s])
            => LET S == onTurnError(Server, s, 1)
                   D == socketDisconnect(Server, s)
               IN  /\ BackToEmpty(S)
                   /\ BackToEmpty(D)
                   /\ \A t \in Players \ {s} :
                          /\ ToldOutcome(S.sent, t,
                                         WonByDisconnection(OrdinalOf(t)))
                          /\ ToldOutcome(D.sent, t,
                                         WonByDisconnection(OrdinalOf(t)))

\* Both players have just been told that the second player won because
\* the first disconnected: the first player, still connected, had an input
\* failure.
C15_Witness ==
    /\ firstPlayerSocket = null
    /\ Cardinality({t \in Sockets :
           ToldOutcome(announced, t, WonByDisconnection("second"))}) = 2

\* C16: an accepted move sends every connected player a board_update that
\* carries the board with the new mark, and that board_update comes before
\* every game_over and every turn the move causes.
C16_BoardUpdateFirst ==
    \A s \in Sockets : \A word \in MoveWords :
        (/\ InProgress /\ Seated(s) /\ Prompting(s) /\ isTurn[s]
         /\ board[CellOf(word)] = ".")
            => LET S == AfterCommand(s, word)
               IN  \A t \in Players :
                       \E i \in 1..Len(S.sent) :
                           /\ S.sent[i] = Msg(t, "board_update", Placed(s, word))
                           /\ \A j \in 1..Len(S.sent) :
                                  S.sent[j].ev \in {"game_over", "turn"} => i < j

\* A player has just been told that the first player won by a line: the
\* winning move was accepted and broadcast.
C16_Witness ==
    /\ firstPlayerSocket = null
    /\ \E t \in Sockets : ToldOutcome(announced, t, WonBy("first"))

\* C17: when the move that fills the last empty cell completes a line of
\* the mover's mark, every connected player is told that the mover won,
\* and no game_over says the game is tied.
C17_LastCellLineWins ==
    \A s \in Sockets : \A word \in MoveWords :
        (/\ InProgress /\ Seated(s) /\ Prompting(s) /\ isTurn[s]
         /\ board[CellOf(word)] = "."
         /\ Full(Placed(s, word))
         /\ HasLine(Placed(s, word), MarkOf(s)))
            => LET S == AfterCommand(s, word)
               IN  /\ \A t \in Players :
                          ToldOutcome(S.sent, t, WonBy(OrdinalOf(s)))
                   /\ \A i \in 1..Len(S.sent) : S.sent[i].data # Tied

\* One cell is empty, and the player that holds the turn completes a line
\* by filling it.
C17_Witness ==
    /\ InProgress
    /\ Cardinality({c \in Cells : board[c] = "."}) = 1
    /\ \E s \in Players : \E word \in MoveWords :
           /\ Prompting(s) /\ isTurn[s]
           /\ board[CellOf(word)] = "."
           /\ HasLine(Placed(s, word), MarkOf(s))

\* C18: a disconnection or a resignation of a seated player ends the
\* session in the same handler run, with or without the turn: slots
\* released, sockets closed, board empty.  A socket that is closed stays
\* closed, and a cell gets a mark only from a connected seated player that
\* holds the turn, so no endpoint of the ended session moves again.
C18_EndsAtOnce ==
    /\ [](\A s \in Sockets :
            (InProgress /\ Seated(s) /\ connected[s])
                => /\ BackToEmpty(socketDisconnect(Server, s))
                   /\ Prompting(s) => BackToEmpty(AfterCommand(s, ResignWord)))
    /\ [][/\ \A s \in Sockets :
                (s < nextSocket /\ ~connected[s]) => ~connected'[s]
          /\ \A c \in Cells :
                (board'[c] # board[c] /\ board'[c] # ".")
                    => \E s \in Players :
                           Prompting(s) /\ isTurn[s] /\ board'[c] = MarkOf(s)]_vars

\* The first player has resigned: the second player has just been told it
\* won by resignation, and every socket is closed.
C18_Witness ==
    /\ firstPlayerSocket = null
    /\ secondPlayerSocket = null
    /\ \E t \in Sockets : ToldOutcome(announced, t, WonByResignation("second"))
    /\ \A s \in Sockets : ~connected[s]

\* The number of cells of b that hold `mark`.
Marks(b, mark) == Cardinality({c \in Cells : b[c] = mark})

\* C19: while a session is in progress, the board holds as many x as o, or
\* one x more.
C19_MarksAlternate ==
    InProgress => Marks(board, "x") - Marks(board, "o") \in {0, 1}

====
